---- MODULE Spec2Model ----
(***************************************************************************)
(* ACE Arena matchmaking / game-session server (src/server.js).            *)
(*                                                                         *)
(* One action per socket.io event handler.  Node runs every handler to     *)
(* completion, so each handler is one atomic step.  The notifications a    *)
(* handler emits are collected in `out` (the emits of the last handler),   *)
(* `thrown` tells whether the last handler ended in an uncaught TypeError,  *)
(* and `last` names the event it handled and the socket it came from.      *)
(* The 'connection' handler only logs: a socket id of Conns that is not in *)
(* `closed` is a socket that is, or may still become, connected.  The      *)
(* leaderboard snapshot carried by 'registered' and 'leaderboard' is a     *)
(* pure read (getTopPlayers sorts a copy) and is left out of the messages. *)
(***************************************************************************)
EXTENDS Integers, Sequences, FiniteSets, TLC

VARIABLES closed, players, queues, games, leaderboard, out, thrown, last,
          events

vars == <<closed, players, queues, games, leaderboard, out, thrown, last,
          events>>

(* ------------------------------ bounds --------------------------------- *)

\* number of sessions ever created (generateId never runs out)
MaxGames == 2

\* number of rounds resolved per session
MaxRound == 2

\* number of events the server handles in a run of Spec
MaxEvents == 4

\* number of events the server handles in a run of SpecDuel
DuelEvents == 8

\* number of events the server handles in a run of SpecCrowd
CrowdEvents == 6

\* number of events the server handles in a run of SpecGrid
GridEvents == 6

\* number of events the server handles in a run of SpecDice
DiceEvents == 7

\* number of events the server handles in a run of SpecPending
PendingEvents == 7

(* ------------------------------ inputs --------------------------------- *)

\* socket ids
Conns == {"c1", "c2", "c3"}

\* JS null / undefined / any falsy value of a name or a move
Null == "null"

\* currentGame: null
NoGame == 0

\* data.name of a register event
Names == {Null, "ann"}

\* the keys of `queues`
GameTypes == {"dice", "rps"}

\* data.gameType of join_queue / leave_queue / play_ai
GameTypeInputs == GameTypes \cup {"chess"}

\* the three canonical rps choices
RPSMoves == {"rock", "paper", "scissors"}

\* data.move of a move event
MoveInputs == RPSMoves \cup {"roll", Null}

\* data.gameId of a move event: ids of sessions that exist or never will
GameIdInputs == {1, 2, 3}

\* faces of the die
DieFaces == 1 .. 6

(* ------------------------------ helpers -------------------------------- *)

\* a truthiness test that takes null for a value
TruthyAlways(x) == TRUE

\* if (x) ... : truthiness of a value that is a string or null
Truthy(x) == x # Null

\* `Player_${socket.id.slice(0, 4)}`
DefaultName(c) == "Player_" \o c

\* the AI side handed to createGame by play_ai
aiPlayer == [odId |-> "AI", name |-> "AI Opponent"]

\* the table read the other way round: each move paired with what beats it
winsReversed(p) ==
    CASE p = "rock" -> "paper"
      [] p = "paper" -> "scissors"
      [] p = "scissors" -> "rock"
      [] OTHER -> "undefined"

\* const wins = { rock: 'scissors', paper: 'rock', scissors: 'paper' }
wins(p) ==
    CASE p = "rock" -> "scissors"
      [] p = "paper" -> "rock"
      [] p = "scissors" -> "paper"
      [] OTHER -> "undefined"

getRPSResult(p1, p2) ==
    IF p1 = p2 THEN "tie"
    ELSE IF wins(p1) = p2 THEN "p1" ELSE "p2"

\* createGame with the two sides stored in the opposite order
createGameSwapped(type, player1, player2, isAI) ==
    [ type    |-> type,
      player1 |-> [odId |-> player2.odId, name |-> player2.name,
                   score |-> 0, move |-> Null],
      player2 |-> [odId |-> player1.odId, name |-> player1.name,
                   score |-> 0, move |-> Null, isAI |-> isAI],
      status  |-> "playing",
      round   |-> 1 ]

\* createGame: the record stored under a fresh id
createGame(type, player1, player2, isAI) ==
    [ type    |-> type,
      player1 |-> [odId |-> player1.odId, name |-> player1.name,
                   score |-> 0, move |-> Null],
      player2 |-> [odId |-> player2.odId, name |-> player2.name,
                   score |-> 0, move |-> Null, isAI |-> isAI],
      status  |-> "playing",
      round   |-> 1 ]

\* updateLeaderboard booking the rps session delta for a win
updateLeaderboardSessionDelta(lb, odId, won) ==
    IF odId \in DOMAIN lb
    THEN IF won
         THEN [lb EXCEPT ![odId].wins = @ + 1, ![odId].score = @ + 15]
         ELSE [lb EXCEPT ![odId].losses = @ + 1]
    ELSE lb

\* leaderboard after updateLeaderboard(odId, won)
updateLeaderboard(lb, odId, won) ==
    IF odId \in DOMAIN lb
    THEN IF won
         THEN [lb EXCEPT ![odId].wins = @ + 1, ![odId].score = @ + 10]
         ELSE [lb EXCEPT ![odId].losses = @ + 1]
    ELSE lb

\* a forfeit settled by comparing the in-session scores: the win goes to
\* the side that is ahead
forfeitByScore(lb, game, c) ==
    LET leaverIsP1 == game.player1.odId = c
        mine == IF leaverIsP1 THEN game.player1.score ELSE game.player2.score
        theirs == IF leaverIsP1 THEN game.player2.score ELSE game.player1.score
        oppId == IF leaverIsP1 THEN game.player2.odId ELSE game.player1.odId
    IN IF mine > theirs
       THEN updateLeaderboard(updateLeaderboard(lb, c, TRUE), oppId, FALSE)
       ELSE updateLeaderboard(updateLeaderboard(lb, oppId, TRUE), c, FALSE)

\* a forfeit that books the win and forgets the leaver's loss
forfeitWithoutLoss(lb, game, c) ==
    LET oppId == IF game.player1.odId = c THEN game.player2.odId
                                          ELSE game.player1.odId
    IN updateLeaderboard(lb, oppId, TRUE)

\* leave_game: "Award win to remaining player", a loss to the leaver c
forfeit(lb, game, c) ==
    LET oppId == IF game.player1.odId = c THEN game.player2.odId
                                          ELSE game.player1.odId
    IN updateLeaderboard(updateLeaderboard(lb, oppId, TRUE), c, FALSE)

\* Map.set(k, v)
MapSet(m, k, v) == [x \in (DOMAIN m) \cup {k} |-> IF x = k THEN v ELSE m[x]]

\* Map.delete(k)
MapDelete(m, k) == [x \in (DOMAIN m) \ {k} |-> m[x]]

\* a removal that removes nobody
WithoutNobody(q, c) == q

\* a removal that drops the head of the queue, whoever it is
WithoutHead(q, c) == IF q = << >> THEN q ELSE Tail(q)

\* Array.filter(id => id !== c)
Without(q, c) == SelectSeq(q, LAMBDA id : id # c)

\* a duplicate check that never finds the id
IncludesNever(q, c) == FALSE

\* Array.includes(c)
Includes(q, c) == \E i \in 1 .. Len(q) : q[i] = c

(* ------------------------------- state --------------------------------- *)

TypeOK ==
    /\ closed \subseteq Conns
    /\ DOMAIN players \subseteq Conns
    /\ \A c \in DOMAIN players :
          /\ players[c].odId = c
          /\ players[c].currentGame \in 0 .. Len(games)
    /\ DOMAIN queues = GameTypes
    /\ \A t \in GameTypes : queues[t] \in Seq(Conns)
    /\ Len(games) <= MaxGames
    /\ \A g \in 1 .. Len(games) :
          /\ games[g].status \in {"playing", "ended"}
          /\ games[g].round \in 1 .. (MaxRound + 1)
    /\ DOMAIN leaderboard \subseteq Conns
    /\ thrown \in BOOLEAN
    /\ events \in Nat

Init ==
    /\ closed = {}
    /\ players = << >>
    /\ queues = [t \in GameTypes |-> << >>]
    /\ games = << >>
    /\ leaderboard = << >>
    /\ out = {}
    /\ thrown = FALSE
    /\ last = [op |-> "init"]
    /\ events = 0

(* ------------------------------ handlers ------------------------------- *)

\* socket.on('register')
Register(c, name) ==
    /\ c \notin closed
    /\ LET player == [odId |-> c,
                      name |-> IF Truthy(name) THEN name ELSE DefaultName(c),
                      currentGame |-> NoGame]
       IN /\ players' = MapSet(players, c, player)
          /\ leaderboard' =
                IF c \notin DOMAIN leaderboard
                THEN MapSet(leaderboard, c,
                        [odId |-> c, name |-> player.name,
                         wins |-> 0, losses |-> 0, score |-> 0])
                ELSE leaderboard
          /\ out' = {[type |-> "registered", to |-> c, playerId |-> c,
                      name |-> player.name]}
    /\ thrown' = FALSE
    /\ last' = [op |-> "register", c |-> c]
    /\ UNCHANGED <<closed, queues, games>>

\* the game_start notification sent to `to`
gameStart(to, gameId, gameType, you, opponent, isAI) ==
    [type |-> "game_start", to |-> to, gameId |-> gameId,
     gameType |-> gameType,
     you |-> [name |-> you.name, score |-> 0],
     opponent |-> [name |-> opponent.name, score |-> 0, isAI |-> isAI]]

\* join_queue, from the push on: enqueue, then "Try to match"
enqueueAndMatch(c, gameType) ==
    LET pushed == Append(queues[gameType], c)
        queued == [type |-> "queued", to |-> c, gameType |-> gameType,
                   position |-> Len(pushed)]
    IN IF Len(pushed) >= 2
       THEN LET p1Id == pushed[1]
                p2Id == pushed[2]
                rest == SubSeq(pushed, 3, Len(pushed))
            IN /\ queues' = [queues EXCEPT ![gameType] = rest]
               /\ IF p1Id \in DOMAIN players /\ p2Id \in DOMAIN players
                  THEN LET p1 == players[p1Id]
                           p2 == players[p2Id]
                           id == Len(games) + 1
                       IN /\ Len(games) < MaxGames
                          /\ games' = Append(games,
                                        createGame(gameType, p1, p2, FALSE))
                          /\ players' = [x \in DOMAIN players |->
                                IF x \in {p1Id, p2Id}
                                THEN [players[x] EXCEPT !.currentGame = id]
                                ELSE players[x]]
                          /\ out' = {queued,
                                gameStart(p1Id, id, gameType, p1, p2, FALSE),
                                gameStart(p2Id, id, gameType, p2, p1, FALSE)}
                  ELSE /\ out' = {queued}
                       /\ UNCHANGED <<players, games>>
       ELSE /\ queues' = [queues EXCEPT ![gameType] = pushed]
            /\ out' = {queued}
            /\ UNCHANGED <<players, games>>

\* socket.on('join_queue')
JoinQueue(c, gameType) ==
    /\ c \notin closed
    /\ last' = [op |-> "join_queue", c |-> c]
    /\ IF c \notin DOMAIN players
       THEN \* if (!player) return;
            /\ out' = {}
            /\ thrown' = FALSE
            /\ UNCHANGED <<players, queues, games>>
       ELSE IF gameType \notin GameTypes
       THEN \* queues[gameType] is undefined: ?.includes is skipped and
            \* .push raises a TypeError nobody catches
            /\ out' = {}
            /\ thrown' = TRUE
            /\ UNCHANGED <<players, queues, games>>
       ELSE IF Includes(queues[gameType], c)
       THEN /\ out' = {[type |-> "error", to |-> c,
                        message |-> "Already in queue"]}
            /\ thrown' = FALSE
            /\ UNCHANGED <<players, queues, games>>
       ELSE /\ thrown' = FALSE
            /\ enqueueAndMatch(c, gameType)
    /\ UNCHANGED <<closed, leaderboard>>

\* socket.on('leave_queue')
LeaveQueue(c, gameType) ==
    /\ c \notin closed
    /\ last' = [op |-> "leave_queue", c |-> c]
    /\ IF gameType \notin GameTypes
       THEN \* queues[gameType].filter on undefined: uncaught TypeError
            /\ out' = {}
            /\ thrown' = TRUE
            /\ UNCHANGED queues
       ELSE /\ queues' = [queues EXCEPT ![gameType] = Without(@, c)]
            /\ out' = {[type |-> "left_queue", to |-> c,
                        gameType |-> gameType]}
            /\ thrown' = FALSE
    /\ UNCHANGED <<closed, players, games, leaderboard>>

\* socket.on('play_ai')
PlayAI(c, gameType) ==
    /\ c \notin closed
    /\ last' = [op |-> "play_ai", c |-> c]
    /\ thrown' = FALSE
    /\ IF c \notin DOMAIN players
       THEN /\ out' = {}
            /\ UNCHANGED <<players, games>>
       ELSE LET player == players[c]
                id == Len(games) + 1
            IN /\ Len(games) < MaxGames
               /\ games' = Append(games,
                                  createGame(gameType, player, aiPlayer, TRUE))
               /\ players' = [players EXCEPT ![c].currentGame = id]
               /\ out' = {gameStart(c, id, gameType, player, aiPlayer, TRUE)}
    /\ UNCHANGED <<closed, queues, leaderboard>>

\* a dice comparison that hands an equal roll to side A
diceResultTieToP1(p1Roll, p2Roll) ==
    IF p1Roll >= p2Roll THEN "win" ELSE "lose"

\* processRound, dice branch: p1Result from the two rolls
diceResult(p1Roll, p2Roll) ==
    IF p1Roll > p2Roll THEN "win"
    ELSE IF p1Roll < p2Roll THEN "lose" ELSE "tie"

\* a leaderboard test that forgets the AI flag
countsForLeaderboardWithAI(game, p1Result) == p1Result # "tie"

\* processRound: if (!game.player2.isAI && p1Result !== 'tie')
countsForLeaderboard(game, p1Result) ==
    ~game.player2.isAI /\ p1Result # "tie"

\* processRound(game) with the two rollDice() results; yields the game and
\* the leaderboard after the round, and the returned result object
processRound(game, lb, p1Roll, p2Roll) ==
    LET p1Move == game.player1.move
        p2Move == game.player2.move
        rps == getRPSResult(p1Move, p2Move)
        p1Result ==
            IF game.type = "dice"
            THEN diceResult(p1Roll, p2Roll)
            ELSE IF game.type = "rps"
            THEN IF rps = "p1" THEN "win"
                 ELSE IF rps = "p2" THEN "lose" ELSE "tie"
            ELSE "undefined"
        p2Result ==
            IF p1Result = "win" THEN "lose"
            ELSE IF p1Result = "lose" THEN "win" ELSE p1Result
        delta == IF game.type = "dice" THEN 10
                 ELSE IF game.type = "rps" THEN 15 ELSE 0
        p1Display == IF game.type = "dice" THEN [roll |-> p1Roll]
                     ELSE IF game.type = "rps" THEN [move |-> p1Move]
                     ELSE [undefined |-> TRUE]
        p2Display == IF game.type = "dice" THEN [roll |-> p2Roll]
                     ELSE IF game.type = "rps" THEN [move |-> p2Move]
                     ELSE [undefined |-> TRUE]
        scored == [game EXCEPT
                     !.player1.score = IF p1Result = "win" THEN @ + delta ELSE @,
                     !.player2.score = IF p2Result = "win" THEN @ + delta ELSE @,
                     !.round = @ + 1]
        lb1 == IF countsForLeaderboard(game, p1Result)
               THEN updateLeaderboard(
                        updateLeaderboard(lb, game.player1.odId,
                                          p1Result = "win"),
                        game.player2.odId, p2Result = "win")
               ELSE lb
    IN [game |-> scored, leaderboard |-> lb1,
        result |-> [p1Move |-> p1Display, p2Move |-> p2Display,
                    p1Result |-> p1Result, p2Result |-> p2Result,
                    isPlayer1 |-> TRUE]]

\* the round_result notification built in the move handler; `forCaller`
\* tells the socket.emit (TRUE) from the io.to(opponent.odId).emit (FALSE)
roundResult(to, forCaller, isPlayer1, game, result) ==
    LET flag == IF forCaller THEN result.isPlayer1 ELSE ~result.isPlayer1
        mine == IF forCaller THEN isPlayer1 ELSE ~isPlayer1
    IN [type |-> "round_result", to |-> to,
        round |-> game.round - 1,
        yourMove |-> IF flag THEN result.p1Move ELSE result.p2Move,
        opponentMove |-> IF flag THEN result.p2Move ELSE result.p1Move,
        result |-> IF forCaller
                   THEN (IF result.isPlayer1 THEN result.p1Result
                                             ELSE result.p2Result)
                   ELSE (IF ~isPlayer1 THEN result.p1Result
                                       ELSE result.p2Result),
        scores |-> [you |-> IF mine THEN game.player1.score
                                    ELSE game.player2.score,
                    opponent |-> IF mine THEN game.player2.score
                                         ELSE game.player1.score]]

\* a move guard that forgets to test game.status
invalidGameStateIgnoringStatus(c, gameId) ==
    \/ gameId \notin 1 .. Len(games)
    \/ c \notin DOMAIN players

\* a move guard that forgets to test the caller's PlayerRecord
invalidGameStateIgnoringPlayer(c, gameId) ==
    \/ gameId \notin 1 .. Len(games)
    \/ games[gameId].status # "playing"

\* if (!game || !player || game.status !== 'playing')
invalidGameState(c, gameId) ==
    \/ gameId \notin 1 .. Len(games)
    \/ c \notin DOMAIN players
    \/ games[gameId].status # "playing"

\* socket.on('move'); aiMove is what getAIMove() returns, p1Roll and p2Roll
\* are what the two rollDice() calls of processRound return, each drawn
\* where the handler reaches the call
Move(c, gameId, move) ==
    /\ c \notin closed
    /\ last' = [op |-> "move", c |-> c]
    /\ thrown' = FALSE
    /\ IF invalidGameState(c, gameId)
       THEN /\ out' = {[type |-> "error", to |-> c,
                        message |-> "Invalid game state"]}
            /\ UNCHANGED <<games, leaderboard>>
       ELSE LET game == games[gameId]
                isPlayer1 == game.player1.odId = c
                \* opponent.isAI: player1 carries no isAI field
                oppIsAI == isPlayer1 /\ game.player2.isAI
                oppId == IF isPlayer1 THEN game.player2.odId
                                      ELSE game.player1.odId
                recorded == IF isPlayer1
                            THEN [game EXCEPT !.player1.move = move]
                            ELSE [game EXCEPT !.player2.move = move]
                aiDraws == IF oppIsAI /\ game.type = "rps"
                           THEN RPSMoves ELSE {Null}
                rolls == IF game.type = "dice" THEN DieFaces ELSE {1}
            IN \E aiMove \in aiDraws :
               LET withAI == IF oppIsAI /\ game.type = "dice"
                             THEN [recorded EXCEPT !.player2.move = "roll"]
                             ELSE IF oppIsAI /\ game.type = "rps"
                             THEN [recorded EXCEPT !.player2.move = aiMove]
                             ELSE recorded
               IN IF Truthy(withAI.player1.move) /\ Truthy(withAI.player2.move)
                  THEN \E p1Roll \in rolls, p2Roll \in rolls :
                       LET r == processRound(withAI, leaderboard,
                                             p1Roll, p2Roll)
                       IN /\ game.round <= MaxRound
                          /\ games' = [games EXCEPT ![gameId] =
                                         [r.game EXCEPT !.player1.move = Null,
                                                        !.player2.move = Null]]
                          /\ leaderboard' = r.leaderboard
                          /\ out' = {roundResult(c, TRUE, isPlayer1,
                                                 r.game, r.result)}
                                    \cup
                                    (IF ~oppIsAI
                                     THEN {roundResult(oppId, FALSE, isPlayer1,
                                                       r.game, r.result)}
                                     ELSE {})
                  ELSE /\ games' = [games EXCEPT ![gameId] = withAI]
                       /\ out' = IF ~oppIsAI
                                 THEN {[type |-> "waiting", to |-> c],
                                       [type |-> "opponent_moved",
                                        to |-> oppId]}
                                 ELSE {}
                       /\ UNCHANGED leaderboard
    /\ UNCHANGED <<closed, players, queues>>

\* socket.on('leave_game')
LeaveGame(c) ==
    /\ c \notin closed
    /\ last' = [op |-> "leave_game", c |-> c]
    /\ thrown' = FALSE
    /\ IF c \notin DOMAIN players \/ players[c].currentGame = NoGame
       THEN /\ out' = {}
            /\ UNCHANGED <<players, games, leaderboard>>
       ELSE LET gameId == players[c].currentGame
                game == games[gameId]
                oppIsAI == game.player1.odId = c /\ game.player2.isAI
                oppId == IF game.player1.odId = c THEN game.player2.odId
                                                  ELSE game.player1.odId
            IN /\ leaderboard' = IF ~oppIsAI
                                 THEN forfeit(leaderboard, game, c)
                                 ELSE leaderboard
               /\ games' = [games EXCEPT ![gameId].status = "ended"]
               /\ players' = [players EXCEPT ![c].currentGame = NoGame]
               /\ out' = {[type |-> "left_game", to |-> c]}
                         \cup
                         (IF ~oppIsAI
                          THEN {[type |-> "opponent_left", to |-> oppId,
                                 message |-> "Opponent left the game"]}
                          ELSE {})
    /\ UNCHANGED <<closed, queues>>

\* socket.on('get_leaderboard')
GetLeaderboard(c) ==
    /\ c \notin closed
    /\ last' = [op |-> "get_leaderboard", c |-> c]
    /\ thrown' = FALSE
    /\ out' = {[type |-> "leaderboard", to |-> c]}
    /\ UNCHANGED <<closed, players, queues, games, leaderboard>>

\* socket.on('disconnect')
Disconnect(c) ==
    /\ c \notin closed
    /\ closed' = closed \cup {c}
    /\ last' = [op |-> "disconnect", c |-> c]
    /\ thrown' = FALSE
    /\ IF c \in DOMAIN players
       THEN LET gameId == players[c].currentGame
                live == gameId # NoGame /\ games[gameId].status = "playing"
                game == games[gameId]
                oppIsAI == game.player1.odId = c /\ game.player2.isAI
                oppId == IF game.player1.odId = c THEN game.player2.odId
                                                  ELSE game.player1.odId
            IN /\ queues' = [t \in GameTypes |-> Without(queues[t], c)]
               /\ games' = IF live
                           THEN [games EXCEPT ![gameId].status = "ended"]
                           ELSE games
               /\ out' = IF live /\ ~oppIsAI
                         THEN {[type |-> "opponent_left", to |-> oppId,
                                message |-> "Opponent disconnected"]}
                         ELSE {}
               /\ players' = MapDelete(players, c)
       ELSE /\ out' = {}
            /\ UNCHANGED <<players, queues, games>>
    /\ UNCHANGED leaderboard

\* the server handles one more event, of at most maxEvents in the run
Tick(maxEvents) ==
    /\ events < maxEvents
    /\ events' = events + 1

\* one step: any handler, for a socket of C and event data drawn from
\* T (game types), N (names), G (game ids) and M (moves)
NextOver(C, T, N, G, M, maxEvents) ==
    \/ \E c \in C, n \in N : Tick(maxEvents) /\ Register(c, n)
    \/ \E c \in C, t \in T : Tick(maxEvents) /\ JoinQueue(c, t)
    \/ \E c \in C, t \in T : Tick(maxEvents) /\ LeaveQueue(c, t)
    \/ \E c \in C, t \in T : Tick(maxEvents) /\ PlayAI(c, t)
    \/ \E c \in C, g \in G, m \in M : Tick(maxEvents) /\ Move(c, g, m)
    \/ \E c \in C : Tick(maxEvents) /\ LeaveGame(c)
    \/ \E c \in C : Tick(maxEvents) /\ GetLeaderboard(c)
    \/ \E c \in C : Tick(maxEvents) /\ Disconnect(c)

\* every socket, every event payload
Next == NextOver(Conns, GameTypeInputs, Names, GameIdInputs, MoveInputs,
                 MaxEvents)

Spec == Init /\ [][Next]_vars

\* two sockets duelling at rock-paper-scissors, over more events
DuelConns == {"c1", "c2"}

DuelMoves == {"rock", "scissors", "roll"}

NextDuel == NextOver(DuelConns, {"rps"}, {Null}, {1}, DuelMoves, DuelEvents)

SpecDuel == Init /\ [][NextDuel]_vars

\* three sockets around one rock-paper-scissors queue
NextCrowd == NextOver(Conns, {"rps"}, {Null}, {1}, {"rock"}, CrowdEvents)

SpecCrowd == Init /\ [][NextCrowd]_vars

\* two sockets and the three canonical moves: the whole rps grid
NextGrid == NextOver(DuelConns, {"rps"}, {Null}, {1}, RPSMoves, GridEvents)

SpecGrid == Init /\ [][NextGrid]_vars

\* two sockets whose moves are rock or empty
NextPending == NextOver(DuelConns, {"rps"}, {Null}, {1}, {"rock", Null},
                        PendingEvents)

SpecPending == Init /\ [][NextPending]_vars

\* two sockets rolling dice
NextDice == NextOver(DuelConns, {"dice"}, {Null}, {1}, {"roll"}, DiceEvents)

SpecDice == Init /\ [][NextDice]_vars

(* ------------------------- vocabulary of the claims -------------------- *)

\* c has a PlayerRecord
Registered(c) == c \in DOMAIN players

\* the session c's PlayerRecord references (c registered, reference not null)
RefGame(c) == games[players[c].currentGame]

\* c's PlayerRecord references a session with this status
RefersTo(c, status) ==
    /\ Registered(c)
    /\ players[c].currentGame # NoGame
    /\ RefGame(c).status = status

\* the side of game record g that is not c
OtherSide(g, c) == IF g.player1.odId = c THEN g.player2.odId
                                         ELSE g.player1.odId

\* c is one of the two sides of game record g
IsSide(g, c) == c \in {g.player1.odId, g.player2.odId}

\* the handler that just ran sent a notification of this type to this socket
Sent(type, to) == \E m \in out : m.type = type /\ m.to = to

\* the handler that just ran sent this error notice to this socket
SentError(to, message) ==
    \E m \in out : m.type = "error" /\ m.to = to /\ m.message = message

\* the handler taking this step sends a notification of this type to `to`
Sends(type, to) == \E m \in out' : m.type = type /\ m.to = to

\* the handler taking this step sends this error notice to `to`
SendsError(to, message) ==
    \E m \in out' : m.type = "error" /\ m.to = to /\ m.message = message

\* this step is the handling of event op sent by connection c (each
\* handler records it in last)
Handles(op, c) == last'.op = op /\ last'.c = c

\* connection id c occurs in the queue of game type t
Queued(t, c) == \E i \in DOMAIN queues[t] : queues[t][i] = c

\* no queue holds a connection id twice
NoDuplicates ==
    \A t \in GameTypes : \A i, j \in DOMAIN queues[t] :
        queues[t][i] = queues[t][j] => i = j

(* --------------------------------- C1 ---------------------------------- *)

\* C1: when a human side of an active human-vs-human session disconnects,
\* that step ends the session, sends OpponentLeft to the remaining side,
\* adds one win to the remaining side's leaderboard entry and one loss to
\* the leaver's, whatever the in-session scores are.
C1_DisconnectForfeits ==
    [][\A c \in Conns :
          (Disconnect(c) /\ RefersTo(c, "playing") /\ ~RefGame(c).player2.isAI)
          => LET id == players[c].currentGame
                 opp == OtherSide(RefGame(c), c)
             IN /\ games'[id].status = "ended"
                /\ Sends("opponent_left", opp)
                /\ leaderboard'[opp].wins = leaderboard[opp].wins + 1
                /\ leaderboard'[c].losses = leaderboard[c].losses + 1]_vars

(* --------------------------------- C2 ---------------------------------- *)

\* C2: leave_game by a human side of the active human-vs-human session it
\* references ends the session, sends OpponentLeft to the other side, adds
\* exactly one win to the other side's leaderboard entry and exactly one
\* loss to the leaver's (no score comparison), and clears the leaver's
\* session reference.
C2_LeaveSessionForfeits ==
    [][\A c \in Conns :
          (LeaveGame(c) /\ RefersTo(c, "playing") /\ ~RefGame(c).player2.isAI)
          => LET id == players[c].currentGame
                 opp == OtherSide(RefGame(c), c)
             IN /\ opp # c
                /\ games'[id].status = "ended"
                /\ Sends("opponent_left", opp)
                /\ leaderboard'[opp].wins = leaderboard[opp].wins + 1
                /\ leaderboard'[opp].losses = leaderboard[opp].losses
                /\ leaderboard'[c].losses = leaderboard[c].losses + 1
                /\ leaderboard'[c].wins = leaderboard[c].wins
                /\ \A x \in DOMAIN leaderboard \ {c, opp} :
                      leaderboard'[x] = leaderboard[x]
                /\ players'[c].currentGame = NoGame]_vars

\* C2 witness: a side has just left a session in which it was ahead on
\* score, and the side that stayed holds the forfeit win
C2_Witness ==
    /\ last.op = "leave_game"
    /\ \E id \in 1 .. Len(games) :
          LET g == games[id]
              opp == OtherSide(g, last.c)
          IN /\ ~g.player2.isAI
             /\ g.status = "ended"
             /\ g.player1.odId = last.c
             /\ g.player1.score > g.player2.score
             /\ Sent("opponent_left", opp)
             /\ leaderboard[opp].wins = 1
             /\ leaderboard[opp].losses = 1
             /\ leaderboard[last.c].losses = 1
             /\ players[last.c].currentGame = NoGame

(* --------------------------------- C3 ---------------------------------- *)

\* C3: leave_game or disconnect by a connection whose referenced session
\* is already ended changes no leaderboard entry and sends no OpponentLeft.
C3_NoForfeitOnEndedSession ==
    [][\A c \in Conns :
          ((LeaveGame(c) \/ Disconnect(c)) /\ RefersTo(c, "ended"))
          => /\ leaderboard' = leaderboard
             /\ \A m \in out' : m.type # "opponent_left"]_vars

(* --------------------------------- C4 ---------------------------------- *)

\* C4: a move on an active session by a registered connection that is
\* neither of its sides gets an invalid-state notice and leaves both
\* pending moves, both scores, the round counter and the leaderboard as
\* they were.
C4_NotAParticipant ==
    [][\A c \in Conns, id \in GameIdInputs, mv \in MoveInputs :
          (/\ Move(c, id, mv)
           /\ id \in 1 .. Len(games)
           /\ Registered(c)
           /\ games[id].status = "playing"
           /\ ~IsSide(games[id], c))
          => /\ SendsError(c, "Invalid game state")
             /\ games'[id].player1.move = games[id].player1.move
             /\ games'[id].player2.move = games[id].player2.move
             /\ games'[id].player1.score = games[id].player1.score
             /\ games'[id].player2.score = games[id].player2.score
             /\ games'[id].round = games[id].round
             /\ leaderboard' = leaderboard]_vars

(* --------------------------------- C5 ---------------------------------- *)

\* C5: in an rps session a move outside {rock, paper, scissors} is never
\* stored as a pending move, and no step resolves a round (changes a
\* score, the round counter or the leaderboard) from a pending move
\* outside {rock, paper, scissors}.
C5_MalformedMoveRejected ==
    [][\A id \in 1 .. Len(games') :
          games'[id].type = "rps"
          => /\ games'[id].player1.move \in RPSMoves \cup {Null}
             /\ games'[id].player2.move \in RPSMoves \cup {Null}
             /\ \A c \in Conns, mv \in MoveInputs :
                   (/\ id \in 1 .. Len(games)
                    /\ Move(c, id, mv)
                    /\ \/ games'[id].round # games[id].round
                       \/ games'[id].player1.score # games[id].player1.score
                       \/ games'[id].player2.score # games[id].player2.score
                       \/ leaderboard' # leaderboard)
                   => mv \in RPSMoves]_vars

(* --------------------------------- C6 ---------------------------------- *)

\* C6: join_queue by a registered connection with a game type other than
\* dice or rps sends the caller an error notice, changes no state and
\* completes without an unhandled failure.
C6_InvalidGameTypeReported ==
    [][\A c \in Conns, t \in GameTypeInputs \ GameTypes :
          (JoinQueue(c, t) /\ Registered(c))
          => /\ Sends("error", c)
             /\ ~thrown'
             /\ UNCHANGED <<players, queues, games, leaderboard>>]_vars

(* --------------------------------- C7 ---------------------------------- *)

\* C7: join_queue for a game type whose queue already holds the caller is
\* answered with the "Already in queue" error and leaves the queues as
\* they were; no queue ever holds the same connection id twice.
C7_AlreadyQueued ==
    [][/\ \A c \in Conns, t \in GameTypes :
             (JoinQueue(c, t) /\ Registered(c) /\ Queued(t, c))
             => /\ SendsError(c, "Already in queue")
                /\ UNCHANGED <<players, queues, games, leaderboard>>
       /\ NoDuplicates']_vars

\* C7 witness: a queued connection has just been told it is already queued
C7_Witness ==
    /\ last.op = "join_queue"
    /\ SentError(last.c, "Already in queue")
    /\ \E t \in GameTypes : Queued(t, last.c)

(* --------------------------------- C8 ---------------------------------- *)

\* C8: a join_queue that brings a queue to two entries removes the two
\* front-most ids in that same step and creates one session of that game
\* type: earlier joiner side A, later joiner side B, playing, round 1,
\* scores 0, no pending moves; both PlayerRecords reference it and both
\* players are sent game_start.
C8_PairingCreatesSession ==
    [][\A c \in Conns, t \in GameTypes :
          (/\ JoinQueue(c, t)
           /\ Registered(c)
           /\ ~Queued(t, c)
           /\ Len(queues[t]) + 1 = 2)
          => LET first == queues[t][1]
                 id == Len(games) + 1
             IN /\ queues'[t] = << >>
                /\ Len(games') = Len(games) + 1
                /\ \A k \in 1 .. Len(games) : games'[k] = games[k]
                /\ games'[id].type = t
                /\ games'[id].status = "playing"
                /\ games'[id].round = 1
                /\ games'[id].player1 =
                      [odId |-> first, name |-> players[first].name,
                       score |-> 0, move |-> Null]
                /\ games'[id].player2 =
                      [odId |-> c, name |-> players[c].name,
                       score |-> 0, move |-> Null, isAI |-> FALSE]
                /\ players'[first].currentGame = id
                /\ players'[c].currentGame = id
                /\ \A x \in {first, c} :
                      \E m \in out' : /\ m.type = "game_start"
                                      /\ m.to = x
                                      /\ m.gameId = id
                                      /\ m.gameType = t]_vars

\* C8 witness: the second joiner has just been paired with the first
C8_Witness ==
    /\ last.op = "join_queue"
    /\ Len(games) >= 1
    /\ LET g == games[Len(games)]
       IN /\ ~g.player2.isAI
          /\ g.player2.odId = last.c
          /\ g.player1.odId # last.c
          /\ g.round = 1
          /\ queues[g.type] = << >>
          /\ Sent("game_start", g.player1.odId)
          /\ Sent("game_start", g.player2.odId)
          /\ players[g.player1.odId].currentGame = Len(games)
          /\ players[g.player2.odId].currentGame = Len(games)

(* --------------------------------- C9 ---------------------------------- *)

\* C9: register by a connection that already has a PlayerRecord leaves the
\* record's display name and session reference unchanged.
C9_RegisterIdempotent ==
    [][\A c \in Conns, n \in Names :
          (Register(c, n) /\ Registered(c))
          => /\ players'[c].name = players[c].name
             /\ players'[c].currentGame = players[c].currentGame]_vars

(* --------------------------------- C10 --------------------------------- *)

\* C10: every round_result of a human-vs-human rps round played with
\* canonical moves reads from its recipient's side, whichever side
\* completed the round: result is win
\* exactly when the recipient's score rose, lose exactly when the
\* opponent's rose, tie when neither did; yourMove and opponentMove are
\* the recipient's and the opponent's moves.
C10_ResultFromRecipientSide ==
    [][\A c \in Conns, id \in GameIdInputs, mv \in MoveInputs :
          (/\ id \in 1 .. Len(games)
           /\ Move(c, id, mv)
           /\ games'[id].round # games[id].round
           /\ games[id].type = "rps"
           /\ ~games[id].player2.isAI
           /\ IsSide(games[id], c)
           /\ mv \in RPSMoves
           /\ {games[id].player1.move, games[id].player2.move}
                 \subseteq RPSMoves \cup {Null})
          => \A m \in out', me \in {"player1", "player2"} :
                (m.type = "round_result" /\ m.to = games[id][me].odId)
                => LET opp == IF me = "player1" THEN "player2" ELSE "player1"
                       gained(x) == games'[id][x].score > games[id][x].score
                       played(x) == IF games[id][x].odId = c
                                    THEN mv ELSE games[id][x].move
                   IN /\ (m.result = "win") <=> gained(me)
                      /\ (m.result = "lose") <=> gained(opp)
                      /\ (m.result = "tie") <=> (~gained(me) /\ ~gained(opp))
                      /\ m.yourMove = [move |-> played(me)]
                      /\ m.opponentMove = [move |-> played(opp)]]_vars

(* --------------------------------- C11 --------------------------------- *)

\* C11: a move that names a session id that does not exist, or a session
\* whose status is ended, sends the caller the invalid-state notice and
\* changes nothing: no pending move is recorded, no score, round counter or
\* leaderboard entry changes, and no round_result is sent.
C11_MoveOnMissingOrEnded ==
    [][\A c \in Conns, id \in GameIdInputs, mv \in MoveInputs :
          (/\ Handles("move", c)
           /\ \/ id \notin 1 .. Len(games)
              \/ games[id].status = "ended"
           /\ Move(c, id, mv))
          => /\ SendsError(c, "Invalid game state")
             /\ \A m \in out' : m.type # "round_result"
             /\ UNCHANGED <<players, queues, games, leaderboard>>]_vars

\* C11 witness: a side that holds a pending move in the only session has
\* just moved again after the session ended; the move was refused and the
\* ended session is as the forfeit left it
C11_Witness ==
    /\ last.op = "move"
    /\ Registered(last.c)
    /\ SentError(last.c, "Invalid game state")
    /\ Len(games) = 1
    /\ games[1].status = "ended"
    /\ games[1].round = 1
    /\ games[1].player1.odId = last.c
    /\ games[1].player1.move = "rock"
    /\ games[1].player2.move = Null
    /\ ~games[1].player2.isAI

(* --------------------------------- C12 --------------------------------- *)

\* every leaderboard entry keeps its wins and its losses in this step
SameWinsAndLosses ==
    /\ DOMAIN leaderboard' = DOMAIN leaderboard
    /\ \A x \in DOMAIN leaderboard :
          /\ leaderboard'[x].wins = leaderboard[x].wins
          /\ leaderboard'[x].losses = leaderboard[x].losses

\* C12: no move on a session with an AI side, no leave_game or disconnect
\* by a connection whose session has an AI side, and no round that ends in
\* a tie changes the wins or losses of any leaderboard entry; in an AI
\* session the session score of the round winner still rises.
C12_AIAndTiesOffLeaderboard ==
    [][/\ \A c \in Conns, id \in GameIdInputs, mv \in MoveInputs :
             (/\ Handles("move", c)
              /\ id \in 1 .. Len(games)
              /\ Move(c, id, mv))
             => LET g == games[id]
                    h == games'[id]
                    tie == /\ h.round # g.round
                           /\ h.player1.score = g.player1.score
                           /\ h.player2.score = g.player2.score
                IN /\ (g.player2.isAI \/ tie) => SameWinsAndLosses
                   /\ (g.player2.isAI /\ g.player1.odId = c)
                      => \A m \in out' :
                            (m.type = "round_result" /\ m.to = c)
                            => /\ m.result = "win"
                                  => h.player1.score > g.player1.score
                               /\ m.result = "lose"
                                  => h.player2.score > g.player2.score
       /\ \A c \in Conns :
             (/\ Registered(c)
              /\ players[c].currentGame # NoGame
              /\ RefGame(c).player2.isAI
              /\ LeaveGame(c) \/ Disconnect(c))
             => SameWinsAndLosses]_vars

\* C12 witness: the human side of an AI session has just won a round; its
\* session score rose and its leaderboard entry shows neither win nor loss
C12_Witness ==
    /\ last.op = "move"
    /\ \E id \in 1 .. Len(games) :
          /\ games[id].player2.isAI
          /\ games[id].player1.odId = last.c
          /\ games[id].round = 2
          /\ games[id].player1.score > 0
          /\ \E m \in out : /\ m.type = "round_result"
                            /\ m.to = last.c
                            /\ m.result = "win"
    /\ leaderboard[last.c].wins = 0
    /\ leaderboard[last.c].losses = 0

(* --------------------------------- C13 --------------------------------- *)

\* C13: in every reachable state every leaderboard entry's score is 10
\* times its wins (so a loss never changes a score), across round wins,
\* whose session score delta is 10 or 15, and across forfeit wins.
C13_ScoreIsTenTimesWins ==
    \A x \in DOMAIN leaderboard :
        leaderboard[x].score = 10 * leaderboard[x].wins

\* C13 witness: a side that won an rps round (session score 15) has just
\* been left by its opponent: it holds a round win and a forfeit win, the
\* leaver two losses
C13_Witness ==
    /\ last.op = "leave_game"
    /\ \E id \in 1 .. Len(games) :
          LET g == games[id]
              stayed == OtherSide(g, last.c)
          IN /\ ~g.player2.isAI
             /\ IsSide(g, last.c)
             /\ g.status = "ended"
             /\ {g.player1.score, g.player2.score} = {0, 15}
             /\ leaderboard[stayed].wins = 2
             /\ leaderboard[stayed].score = 20
             /\ leaderboard[last.c].losses = 2
             /\ leaderboard[last.c].score = 0

(* --------------------------------- C14 --------------------------------- *)

\* C14: in an active session with an AI side, a move by the human side
\* with a non-empty move resolves the round in that same step (the round
\* counter rises by 1, both pending moves are cleared, a round_result is
\* sent to the human), and no move on an AI session is ever answered with
\* a waiting notification.
C14_AIMoveResolvesAtOnce ==
    [][\A c \in Conns, id \in GameIdInputs, mv \in MoveInputs :
          (/\ Move(c, id, mv)
           /\ id \in 1 .. Len(games)
           /\ Registered(c)
           /\ games[id].status = "playing"
           /\ games[id].player2.isAI)
          => /\ (games[id].player1.odId = c /\ mv # Null)
                => /\ games'[id].round = games[id].round + 1
                   /\ games'[id].player1.move = Null
                   /\ games'[id].player2.move = Null
                   /\ Sends("round_result", c)
             /\ \A m \in out' : m.type # "waiting"]_vars

(* --------------------------------- C15 --------------------------------- *)

\* sequence q with its i-th entry taken out, the others in their order
Removing(q, i) == SubSeq(q, 1, i - 1) \o SubSeq(q, i + 1, Len(q))

\* C15: leave_queue for a game type whose queue does not hold the caller
\* leaves every queue unchanged and is answered with left_queue, not with
\* an error; leave_queue for a queue that holds the caller removes exactly
\* that id and keeps the remaining entries in their order.
C15_LeaveQueue ==
    [][\A c \in Conns, t \in GameTypes :
          LeaveQueue(c, t)
          => /\ Sends("left_queue", c)
             /\ ~Sends("error", c)
             /\ ~thrown'
             /\ \A u \in GameTypes \ {t} : queues'[u] = queues[u]
             /\ IF Queued(t, c)
                THEN \E i \in DOMAIN queues[t] :
                        /\ queues[t][i] = c
                        /\ queues'[t] = Removing(queues[t], i)
                ELSE queues'[t] = queues[t]]_vars

\* C15 witness: a connection has just left a queue it was not in, and the
\* connection that waits in that queue is still there
C15_Witness ==
    /\ last.op = "leave_queue"
    /\ \E m \in out :
          /\ m.type = "left_queue"
          /\ m.to = last.c
          /\ Len(queues[m.gameType]) = 1
          /\ queues[m.gameType][1] # last.c
    /\ \A m \in out : m.type # "error"

(* --------------------------------- C16 --------------------------------- *)

\* this step is the handling of a command other than register and
\* get_leaderboard, sent by connection c
Commands(c) ==
    \/ \E t \in GameTypeInputs :
          JoinQueue(c, t) \/ LeaveQueue(c, t) \/ PlayAI(c, t)
    \/ \E id \in GameIdInputs, mv \in MoveInputs : Move(c, id, mv)
    \/ LeaveGame(c)
    \/ Disconnect(c)

\* C16: join_queue, leave_queue, play_ai, move, leave_game and disconnect
\* by a connection that has no PlayerRecord leave the registry, all queues,
\* all sessions and the leaderboard unchanged.
C16_UnregisteredChangesNothing ==
    [][\A c \in Conns :
          (~Registered(c) /\ Commands(c))
          => UNCHANGED <<players, queues, games, leaderboard>>]_vars

\* C16 witness: a connection without PlayerRecord has just moved on a
\* session that is playing; the move was refused and the session holds no
\* pending move
C16_Witness ==
    /\ last.op = "move"
    /\ ~Registered(last.c)
    /\ last.c \notin closed
    /\ SentError(last.c, "Invalid game state")
    /\ Len(games) = 1
    /\ games[1].status = "playing"
    /\ games[1].player1.move = Null
    /\ games[1].player2.move = Null
    /\ players # << >>

(* --------------------------------- C17 --------------------------------- *)

\* the pairs (x, y) of canonical moves in which x beats y
Beats == {<<"rock", "scissors">>, <<"scissors", "paper">>, <<"paper", "rock">>}

\* C17: over the 3x3 grid of {rock, paper, scissors} the rps rule yields a
\* tie exactly for the 3 pairs of identical moves and side A's win exactly
\* for (rock, scissors), (scissors, paper), (paper, rock), and it is
\* antisymmetric; a round resolved from moves (a, b) of the sides A and B
\* adds 15 to the winner's session score and 0 to the loser's, and 0 to
\* both on a tie.
C17_RpsRule ==
    [][/\ \A x, y \in RPSMoves :
             /\ getRPSResult(x, y) \in {"tie", "p1", "p2"}
             /\ getRPSResult(x, y) = "tie" <=> x = y
             /\ getRPSResult(x, y) = "p1" <=> <<x, y>> \in Beats
             /\ getRPSResult(x, y) = "p1" <=> getRPSResult(y, x) = "p2"
       /\ Cardinality({p \in RPSMoves \X RPSMoves :
                          getRPSResult(p[1], p[2]) = "tie"}) = 3
       /\ \A c \in Conns, id \in GameIdInputs, mv \in RPSMoves :
             (/\ id \in 1 .. Len(games)
              /\ Move(c, id, mv)
              /\ games[id].type = "rps"
              /\ IsSide(games[id], c)
              /\ games'[id].round # games[id].round)
             => LET g == games[id]
                    h == games'[id]
                    \* the round_result the caller gets: in an AI session it
                    \* is the only place that shows the AI's move
                    m == CHOOSE r \in out' :
                            r.type = "round_result" /\ r.to = c
                    a == IF g.player1.odId = c THEN mv ELSE g.player1.move
                    b == IF g.player2.isAI THEN m.opponentMove.move
                         ELSE IF g.player2.odId = c THEN mv
                         ELSE g.player2.move
                IN {a, b} \subseteq RPSMoves
                   => /\ h.player1.score = g.player1.score
                            + (IF <<a, b>> \in Beats THEN 15 ELSE 0)
                      /\ h.player2.score = g.player2.score
                            + (IF <<b, a>> \in Beats THEN 15 ELSE 0)]_vars

\* C17 witness: side B has just completed a human-vs-human round with
\* paper against side A's rock, and holds the 15 points of the round
C17_Witness ==
    /\ last.op = "move"
    /\ Len(games) = 1
    /\ ~games[1].player2.isAI
    /\ games[1].player2.odId = last.c
    /\ games[1].round = 2
    /\ games[1].player1.score = 0
    /\ games[1].player2.score = 15
    /\ \E m \in out :
          /\ m.type = "round_result"
          /\ {m.yourMove, m.opponentMove} = {[move |-> "rock"], [move |-> "paper"]}

(* --------------------------------- C18 --------------------------------- *)

\* C18: in a dice session every resolved round, whatever the two rolls in
\* 1..6, adds 10 to the session score of the side whose roll is strictly
\* higher and nothing to the other, and nothing to either on equal rolls;
\* scores start at 0 and no step but a move that resolves a round changes
\* them, so after any sequence of rounds each score is 10 times the number
\* of rounds that side won.
\* The rolls are read from the round_result the caller gets: processRound
\* returns isPlayer1: true, so its yourMove is side A's roll and its
\* opponentMove side B's.
C18_DiceScores ==
    [][/\ \A id \in (Len(games) + 1) .. Len(games') :
             /\ games'[id].round = 1
             /\ games'[id].player1.score = 0
             /\ games'[id].player2.score = 0
       /\ \A id \in 1 .. Len(games) :
             games[id].type = "dice"
             => LET g == games[id]
                    h == games'[id]
                IN IF h.round = g.round
                   THEN /\ h.player1.score = g.player1.score
                        /\ h.player2.score = g.player2.score
                   ELSE /\ last'.op = "move"
                        /\ h.round = g.round + 1
                        /\ \E m \in out' :
                              /\ m.type = "round_result"
                              /\ m.to = last'.c
                              /\ LET a == m.yourMove.roll
                                     b == m.opponentMove.roll
                                 IN /\ {a, b} \subseteq DieFaces
                                    /\ h.player1.score = g.player1.score
                                          + (IF a > b THEN 10 ELSE 0)
                                    /\ h.player2.score = g.player2.score
                                          + (IF b > a THEN 10 ELSE 0)]_vars

\* C18 witness: a dice session after two rounds, the second of which has
\* just been resolved with equal rolls: side A won the other round and
\* holds 10, side B holds 0
C18_Witness ==
    /\ last.op = "move"
    /\ Len(games) = 1
    /\ games[1].type = "dice"
    /\ games[1].player1.odId = last.c
    /\ games[1].round = 3
    /\ games[1].player1.score = 10
    /\ games[1].player2.score = 0
    /\ \E m \in out :
          /\ m.type = "round_result"
          /\ m.yourMove = m.opponentMove
          /\ m.yourMove.roll \in DieFaces

(* --------------------------------- C19 --------------------------------- *)

\* C19: session status is monotonic: no step removes a session, and a
\* session whose status is ended stays ended, with its two scores and its
\* round counter as they are, whatever command whichever connection sends.
C19_EndedStaysEnded ==
    [][/\ Len(games') >= Len(games)
       /\ \A id \in 1 .. Len(games) :
             /\ games'[id].status \in {"playing", "ended"}
             /\ games[id].status = "ended"
                => /\ games'[id].status = "ended"
                   /\ games'[id].round = games[id].round
                   /\ games'[id].player1.score = games[id].player1.score
                   /\ games'[id].player2.score = games[id].player2.score]_vars

\* C19 witness: a side of a human-vs-human session that ended after its
\* first round has just opened a new session against the AI; the ended
\* session still shows round 2 and the 15 points of its only round
C19_Witness ==
    /\ last.op = "play_ai"
    /\ Len(games) = 2
    /\ games[1].status = "ended"
    /\ ~games[1].player2.isAI
    /\ IsSide(games[1], last.c)
    /\ games[1].round = 2
    /\ games[1].player1.score + games[1].player2.score = 15
    /\ games[2].status = "playing"
    /\ games[2].player1.odId = last.c

(* --------------------------------- C20 --------------------------------- *)

\* once connection c's move mv is recorded in session g, both sides hold a
\* non-empty pending move: mv is non-empty, and the other side's move is
\* pending or is synthesized for the AI
BothMoved(g, c, mv) ==
    LET isP1 == g.player1.odId = c
        other == IF isP1 THEN g.player2.move ELSE g.player1.move
        synthesized == isP1 /\ g.player2.isAI /\ g.type \in GameTypes
    IN mv # Null /\ (synthesized \/ other # Null)

\* C20: a session starts at round 1 with no pending move; its round
\* counter rises, and then by exactly 1, in precisely the accepted move
\* steps after whose recording both sides hold a non-empty pending move;
\* both pending moves are empty when such a step completes; no other
\* command changes the counter; and in every state between commands at
\* most one side of a session has a pending move.
C20_RoundResolvedOnce ==
    [][/\ \A id \in (Len(games) + 1) .. Len(games') :
             /\ games'[id].round = 1
             /\ games'[id].player1.move = Null
             /\ games'[id].player2.move = Null
       /\ \A id \in 1 .. Len(games) :
             LET g == games[id]
                 h == games'[id]
             IN /\ h.round \in {g.round, g.round + 1}
                /\ h.round = g.round + 1
                   <=> /\ g.status = "playing"
                       /\ \E c \in DOMAIN players, mv \in MoveInputs :
                              /\ Handles("move", c)
                              /\ BothMoved(g, c, mv)
                              /\ Move(c, id, mv)
                /\ h.round = g.round + 1
                   => h.player1.move = Null /\ h.player2.move = Null
                /\ h.player1.move = Null \/ h.player2.move = Null]_vars

\* C20 witness: side B has just completed the first round of a
\* human-vs-human session: both sides are sent its result, the counter
\* shows 2 and no move is pending
C20_Witness ==
    /\ last.op = "move"
    /\ Len(games) = 1
    /\ ~games[1].player2.isAI
    /\ games[1].player2.odId = last.c
    /\ games[1].status = "playing"
    /\ games[1].round = 2
    /\ games[1].player1.move = Null
    /\ games[1].player2.move = Null
    /\ \A x \in {games[1].player1.odId, games[1].player2.odId} :
          \E m \in out : m.type = "round_result" /\ m.to = x /\ m.round = 1

(* --------------------------------- C21 --------------------------------- *)

\* C21: in every reachable state every session has exactly two sides with
\* different ids; side A is a connection and carries no AI flag, side B is
\* either another connection or the AI (so at most one side, and only side
\* B, is AI-controlled); pairing never puts one connection on both sides.
C21_TwoDistinctSides ==
    \A id \in 1 .. Len(games) :
        LET g == games[id]
        IN /\ g.player1.odId # g.player2.odId
           /\ g.player1.odId \in Conns
           /\ "isAI" \notin DOMAIN g.player1
           /\ IF g.player2.isAI
              THEN g.player2.odId = aiPlayer.odId
              ELSE g.player2.odId \in Conns

\* C21 witness: the third connection has just opened a session against the
\* AI next to the session the queue paired from the two other connections
C21_Witness ==
    /\ last.op = "play_ai"
    /\ Len(games) = 2
    /\ ~games[1].player2.isAI
    /\ games[2].player2.isAI
    /\ games[2].player1.odId = last.c
    /\ Cardinality({games[1].player1.odId, games[1].player2.odId,
                    games[2].player1.odId}) = 3

(* --------------------------------- C22 --------------------------------- *)

\* C22: once a connection's disconnect has been handled, no session whose
\* status is playing has that connection id as one of its sides, whatever
\* the connection sent before.
C22_NoActiveSessionAfterDisconnect ==
    \A c \in closed : \A id \in 1 .. Len(games) :
        games[id].status = "playing" => ~IsSide(games[id], c)

(* --------------------------------- C23 --------------------------------- *)

\* C23: in every reachable state every session has a game type of the
\* closed set {dice, rps}; play_ai with any other type creates no session.
C23_GameTypeClosed ==
    \A id \in 1 .. Len(games) : games[id].type \in GameTypes

(* --------------------------------- C24 --------------------------------- *)

\* C24: in every reachable state a connection id is a human side of at
\* most one session whose status is playing, and every human side of a
\* playing session has a PlayerRecord whose session reference is that
\* session's id.
C24_OneActiveSessionPerConnection ==
    /\ \A c \in Conns : \A i, j \in 1 .. Len(games) :
          (/\ games[i].status = "playing"
           /\ games[j].status = "playing"
           /\ IsSide(games[i], c)
           /\ IsSide(games[j], c))
          => i = j
    /\ \A c \in Conns : \A id \in 1 .. Len(games) :
          (games[id].status = "playing" /\ IsSide(games[id], c))
          => Registered(c) /\ players[c].currentGame = id

(* --------------------------------- C25 --------------------------------- *)

\* C25: after every command each matchmaking queue holds at most one
\* connection id and every queued id has a PlayerRecord; an id leaves a
\* queue only by its own leave_queue or disconnect, or as a side of the
\* session created in that same step.
C25_QueuesShortAndRegistered ==
    [][\A t \in GameTypes :
          /\ Len(queues'[t]) <= 1
          /\ \A i \in DOMAIN queues'[t] : queues'[t][i] \in DOMAIN players'
          /\ \A i \in DOMAIN queues[t] :
                LET x == queues[t][i]
                IN (\A j \in DOMAIN queues'[t] : queues'[t][j] # x)
                   => \/ Handles("leave_queue", x)
                      \/ Handles("disconnect", x)
                      \/ /\ Len(games') = Len(games) + 1
                         /\ games'[Len(games')].type = t
                         /\ IsSide(games'[Len(games')], x)
                         /\ players'[x].currentGame = Len(games')]_vars

\* C25 witness: the third connection has just joined the queue that paired
\* the two others into a session, and waits there alone
C25_Witness ==
    /\ last.op = "join_queue"
    /\ Len(games) = 1
    /\ ~games[1].player2.isAI
    /\ games[1].status = "playing"
    /\ queues[games[1].type] = <<last.c>>
    /\ ~IsSide(games[1], last.c)
    /\ Registered(last.c)
    /\ \E m \in out : m.type = "queued" /\ m.to = last.c /\ m.position = 1

(* --------------------------------- C26 --------------------------------- *)

\* sum of field f over the entries S of leaderboard lb
RECURSIVE SumOver(_, _, _)
SumOver(lb, f, S) ==
    IF S = {} THEN 0
    ELSE LET x == CHOOSE y \in S : TRUE
         IN lb[x][f] + SumOver(lb, f, S \ {x})

\* total of field f over all leaderboard entries of lb
Total(lb, f) == SumOver(lb, f, DOMAIN lb)

\* C26: in every reachable state the wins of all leaderboard entries sum
\* to the same number as their losses: a step either leaves the wins and
\* losses of the existing entries as they are (a new entry starts with
\* none) or adds exactly one win to one entry and exactly one loss to a
\* different entry.
C26_WinsEqualLosses ==
    [][/\ Total(leaderboard', "wins") = Total(leaderboard', "losses")
       /\ DOMAIN leaderboard \subseteq DOMAIN leaderboard'
       /\ \A x \in DOMAIN leaderboard' \ DOMAIN leaderboard :
             leaderboard'[x].wins = 0 /\ leaderboard'[x].losses = 0
       /\ \/ \A x \in DOMAIN leaderboard :
                /\ leaderboard'[x].wins = leaderboard[x].wins
                /\ leaderboard'[x].losses = leaderboard[x].losses
          \/ \E w, l \in DOMAIN leaderboard :
                /\ w # l
                /\ \A x \in DOMAIN leaderboard :
                      /\ leaderboard'[x].wins = leaderboard[x].wins
                            + (IF x = w THEN 1 ELSE 0)
                      /\ leaderboard'[x].losses = leaderboard[x].losses
                            + (IF x = l THEN 1 ELSE 0)]_vars

\* C26 witness: a side that lost the only round has just been awarded the
\* forfeit of its opponent: each of the two entries shows one win and one
\* loss
C26_Witness ==
    /\ last.op = "leave_game"
    /\ Len(games) = 1
    /\ ~games[1].player2.isAI
    /\ games[1].status = "ended"
    /\ games[1].round = 2
    /\ IsSide(games[1], last.c)
    /\ \A x \in {games[1].player1.odId, games[1].player2.odId} :
          leaderboard[x].wins = 1 /\ leaderboard[x].losses = 1
    /\ Total(leaderboard, "wins") = 2
    /\ Total(leaderboard, "losses") = 2

====
